---- MODULE Spec2Model ----
(***************************************************************************)
(* A model of python-commons/file_io.py (read_json, write_json) over a     *)
(* small POSIX-like file system.  File contents are byte sequences; the    *)
(* bytes are produced by a model of json.dump (the pure-Python chunked     *)
(* encoder json.dump drives) followed by the UTF-8 text layer, and are     *)
(* read back by a model of json.load (UTF-8 decode, then the decoder).     *)
(***************************************************************************)
EXTENDS Integers, Sequences, FiniteSets, TLC

(***************************************************************************)
(* JSON values.  Every value is a record of one shape so that any two      *)
(* values can be compared: t is the Python type, n the integer (or 0/1     *)
(* for a bool), s the string's code points, k the keys of a dict (each a   *)
(* sequence of code points, in insertion order) and e the elements of a    *)
(* list or the values of a dict.                                           *)
(***************************************************************************)
JNull == [t |-> "null", n |-> 0, s |-> <<>>, k |-> <<>>, e |-> <<>>]

JBool(b) == [t |-> "bool", n |-> IF b THEN 1 ELSE 0, s |-> <<>>, k |-> <<>>, e |-> <<>>]

JInt(i) == [t |-> "int", n |-> i, s |-> <<>>, k |-> <<>>, e |-> <<>>]

JStr(cs) == [t |-> "str", n |-> 0, s |-> cs, k |-> <<>>, e |-> <<>>]

JList(es) == [t |-> "list", n |-> 0, s |-> <<>>, k |-> <<>>, e |-> es]

JDict(ks, es) == [t |-> "dict", n |-> 0, s |-> <<>>, k |-> ks, e |-> es]

\* A value json.dump has no native representation for and whose fallback
\* encoder raises (a default= callable that raises TypeError, or a circular
\* reference, which raises ValueError when the encoder reaches it).
JBad == [t |-> "bad", n |-> 0, s |-> <<>>, k |-> <<>>, e |-> <<>>]

RECURSIVE FlatRange(_, _, _)
\* ss[lo] \o ... \o ss[hi], by halving (the recursion stays shallow).
FlatRange(ss, lo, hi) ==
    IF lo > hi THEN <<>>
    ELSE IF lo = hi THEN ss[lo]
    ELSE FlatRange(ss, lo, (lo + hi) \div 2) \o FlatRange(ss, ((lo + hi) \div 2) + 1, hi)

\* The concatenation of a sequence of sequences.
Flat(ss) == FlatRange(ss, 1, Len(ss))

RECURSIVE Repeat(_, _)
Repeat(x, cnt) == IF cnt <= 0 THEN <<>> ELSE <<x>> \o Repeat(x, cnt - 1)

(***************************************************************************)
(* The encoder: json.dump(data, fp, ensure_ascii=, indent=, default=).     *)
(* indent is <<>> for None and <<w>> for an indentation of w; the item     *)
(* separator is ", " without an indent and "," with one, the key           *)
(* separator is ": ".                                                      *)
(***************************************************************************)
RECURSIVE Digits(_)
Digits(m) == IF m < 10 THEN <<48 + m>> ELSE Digits(m \div 10) \o <<48 + (m % 10)>>

\* int.__repr__
IntStr(i) == IF i < 0 THEN <<45>> \o Digits(0 - i) ELSE Digits(i)

HexDigit(d) == IF d < 10 THEN 48 + d ELSE 87 + d

\* '\\u{0:04x}'.format(m)
UEscape(m) ==
    <<92, 117, HexDigit(m \div 4096), HexDigit((m \div 256) % 16),
      HexDigit((m \div 16) % 16), HexDigit(m % 16)>>

\* An escape table without the entry for the backslash.
EscapeCharNoBackslash(c, ea) ==
    CASE c = 34 -> <<92, 34>>
      [] c = 10 -> <<92, 110>>
      [] c = 13 -> <<92, 114>>
      [] c = 9 -> <<92, 116>>
      [] c = 8 -> <<92, 98>>
      [] c = 12 -> <<92, 102>>
      [] c < 32 -> UEscape(c)
      [] ea /\ c > 126 /\ c < 65536 -> UEscape(c)
      [] ea /\ c >= 65536 ->
            UEscape(55296 + ((c - 65536) \div 1024)) \o UEscape(56320 + ((c - 65536) % 1024))
      [] OTHER -> <<c>>

\* json.encoder ESCAPE_DCT, ESCAPE (ensure_ascii false) and ESCAPE_ASCII
\* (ensure_ascii true: every character outside ' '..'~' is escaped, one
\* above U+FFFF as a surrogate pair).
EscapeChar(c, ea) ==
    CASE c = 34 -> <<92, 34>>
      [] c = 92 -> <<92, 92>>
      [] c = 10 -> <<92, 110>>
      [] c = 13 -> <<92, 114>>
      [] c = 9 -> <<92, 116>>
      [] c = 8 -> <<92, 98>>
      [] c = 12 -> <<92, 102>>
      [] c < 32 -> UEscape(c)
      [] ea /\ c > 126 /\ c < 65536 -> UEscape(c)
      [] ea /\ c >= 65536 ->
            UEscape(55296 + ((c - 65536) \div 1024)) \o UEscape(56320 + ((c - 65536) % 1024))
      [] OTHER -> <<c>>

\* py_encode_basestring / py_encode_basestring_ascii
EncodeStr(cs, ea) == <<34>> \o Flat([j \in 1..Len(cs) |-> EscapeChar(cs[j], ea)]) \o <<34>>

NewlineIndent(indent, level) == <<10>> \o Repeat(32, indent[1] * level)

ItemSeparator(indent) == IF indent = <<>> THEN <<44, 32>> ELSE <<44>>

\* The text of a scalar: 'null', 'true', 'false', int.__repr__, the string.
ScalarText(v, ea) ==
    CASE v.t = "null" -> <<110, 117, 108, 108>>
      [] v.t = "bool" -> IF v.n = 1 THEN <<116, 114, 117, 101>> ELSE <<102, 97, 108, 115, 101>>
      [] v.t = "int" -> IntStr(v.n)
      [] OTHER -> EncodeStr(v.s, ea)

IsScalar(v) == v.t \in {"null", "bool", "int", "str"}

RECURSIVE Chunks(_, _, _, _)
\* The chunks _make_iterencode yields for value v at an indent level, one
\* fp.write each.  A chunk sequence ending in <<0>> stands for the encoder
\* raising at that point (0 is no byte of a JSON text).
Chunks(v, indent, ea, level) ==
    CASE IsScalar(v) -> <<ScalarText(v, ea)>>
      [] v.t = "bad" -> <<<<0>>>>
      [] v.t = "list" ->
            IF v.e = <<>> THEN <<<<91, 93>>>>
            ELSE LET nl == IF indent = <<>> THEN <<>> ELSE NewlineIndent(indent, level + 1)
                     sep == ItemSeparator(indent) \o nl
                     item(j) ==
                        LET buf == IF j = 1 THEN <<91>> \o nl ELSE sep
                        IN  IF IsScalar(v.e[j]) THEN <<buf \o ScalarText(v.e[j], ea)>>
                            ELSE <<buf>> \o Chunks(v.e[j], indent, ea, level + 1)
                     close == IF indent = <<>> THEN <<>> ELSE <<NewlineIndent(indent, level)>>
                 IN  Flat([j \in 1..Len(v.e) |-> item(j)]) \o close \o <<<<93>>>>
      [] OTHER ->
            IF v.e = <<>> THEN <<<<123, 125>>>>
            ELSE LET nl == IF indent = <<>> THEN <<>> ELSE NewlineIndent(indent, level + 1)
                     sep == ItemSeparator(indent) \o nl
                     open == IF indent = <<>> THEN <<<<123>>>> ELSE <<<<123>>, nl>>
                     item(j) ==
                        (IF j = 1 THEN <<>> ELSE <<sep>>)
                        \o <<EncodeStr(v.k[j], ea), <<58, 32>>>>
                        \o Chunks(v.e[j], indent, ea, level + 1)
                     close == IF indent = <<>> THEN <<>> ELSE <<NewlineIndent(indent, level)>>
                 IN  open \o Flat([j \in 1..Len(v.e) |-> item(j)]) \o close \o <<<<125>>>>

RECURSIVE GoodPrefix(_)
\* The chunks written before the encoder raises.
GoodPrefix(cs) ==
    IF cs = <<>> \/ Head(cs) = <<0>> THEN <<>> ELSE <<Head(cs)>> \o GoodPrefix(Tail(cs))

\* Whether json.dump raises on v (before or after some chunks are written).
DumpRaises(v, indent, ea) == \E j \in 1..Len(Chunks(v, indent, ea, 0)) : Chunks(v, indent, ea, 0)[j] = <<0>>

(***************************************************************************)
(* The text layer: the file is opened with encoding utf-8.                 *)
(***************************************************************************)
Utf8Char(c) ==
    CASE c < 128 -> <<c>>
      [] c < 2048 -> <<192 + (c \div 64), 128 + (c % 64)>>
      [] c < 65536 -> <<224 + (c \div 4096), 128 + ((c \div 64) % 64), 128 + (c % 64)>>
      [] OTHER -> <<240 + (c \div 262144), 128 + ((c \div 4096) % 64),
                    128 + ((c \div 64) % 64), 128 + (c % 64)>>

Utf8Encode(cs) == Flat([j \in 1..Len(cs) |-> Utf8Char(cs[j])])

IsCont(b) == b >= 128 /\ b < 192

\* The length of the UTF-8 sequence a lead byte starts (0: no lead byte).
Utf8Need(b) ==
    CASE b < 128 -> 1
      [] b >= 192 /\ b < 224 -> 2
      [] b >= 224 /\ b < 240 -> 3
      [] b >= 240 /\ b < 248 -> 4
      [] OTHER -> 0

\* The code points of a byte sequence (bytes.decode("utf-8"), strict); <<0>>
\* (no character of a JSON text) stands for UnicodeDecodeError.  Every byte
\* is a lead byte followed by exactly its continuation bytes, or one of them.
Utf8Decode(bs) ==
    LET n == Len(bs)
        okAt(j) ==
            IF IsCont(bs[j]) THEN j > 1
            ELSE /\ Utf8Need(bs[j]) > 0
                 /\ j + Utf8Need(bs[j]) - 1 <= n
                 /\ \A m \in (j + 1)..(j + Utf8Need(bs[j]) - 1) : IsCont(bs[m])
                 /\ (j + Utf8Need(bs[j]) <= n => ~IsCont(bs[j + Utf8Need(bs[j])]))
        charAt(j) ==
            LET b == bs[j]
                need == Utf8Need(b)
            IN  CASE need = 1 -> b
                  [] need = 2 -> (b - 192) * 64 + (bs[j + 1] - 128)
                  [] need = 3 -> (b - 224) * 4096 + (bs[j + 1] - 128) * 64 + (bs[j + 2] - 128)
                  [] OTHER -> (b - 240) * 262144 + (bs[j + 1] - 128) * 4096
                              + (bs[j + 2] - 128) * 64 + (bs[j + 3] - 128)
    IN  IF \E j \in 1..n : ~okAt(j) THEN <<0>>
        ELSE Flat([j \in 1..n |-> IF IsCont(bs[j]) THEN <<>> ELSE <<charAt(j)>>])

(***************************************************************************)
(* The decoder: json.load(f) = JSONDecoder().decode(f.read()).  A parse    *)
(* result is [ok, v, i]: whether a value was read, the value, and the      *)
(* index after it.  Floats, NaN and Infinity are outside the bounded value *)
(* set and are rejected.                                                   *)
(***************************************************************************)
ParseFail == [ok |-> FALSE, v |-> JNull, i |-> 0]

ParseOk(v, i) == [ok |-> TRUE, v |-> v, i |-> i]

IsWs(c) == c \in {32, 9, 10, 13}

\* WHITESPACE.match(s, i).end(): the first index from i on that holds no
\* whitespace (Len(s) + 1 when only whitespace is left).
SkipWs(s, i) ==
    IF i > Len(s) THEN i
    ELSE LET stops == {j \in i..(Len(s) + 1) : j = Len(s) + 1 \/ ~IsWs(s[j])}
         IN  CHOOSE j \in stops : \A m \in stops : j <= m

HexVal(c) ==
    CASE c >= 48 /\ c <= 57 -> c - 48
      [] c >= 97 /\ c <= 102 -> c - 87
      [] c >= 65 /\ c <= 70 -> c - 55
      [] OTHER -> 0 - 1

\* _decode_uXXXX: the four hex digits at s[i..i+3], or -1.
Hex4At(s, i) ==
    IF i + 3 > Len(s) \/ (\E j \in i..(i + 3) : HexVal(s[j]) < 0) THEN 0 - 1
    ELSE HexVal(s[i]) * 4096 + HexVal(s[i + 1]) * 256 + HexVal(s[i + 2]) * 16 + HexVal(s[i + 3])

\* json.decoder BACKSLASH
Unescape(c) ==
    CASE c = 34 -> 34 [] c = 92 -> 92 [] c = 47 -> 47 [] c = 98 -> 8 [] c = 102 -> 12
      [] c = 110 -> 10 [] c = 114 -> 13 [] c = 116 -> 9 [] OTHER -> 0 - 1

RECURSIVE ScanString(_, _, _)
\* py_scanstring (strict): i is the index after the opening quote.
ScanString(s, i, acc) ==
    IF i > Len(s) THEN ParseFail
    ELSE LET c == s[i]
         IN  CASE c = 34 -> ParseOk(JStr(acc), i + 1)
               [] c = 92 ->
                    IF i + 1 > Len(s) THEN ParseFail
                    ELSE IF s[i + 1] = 117
                         THEN LET u == Hex4At(s, i + 2)
                                  u2 == IF i + 7 <= Len(s) /\ s[i + 6] = 92 /\ s[i + 7] = 117
                                        THEN Hex4At(s, i + 8) ELSE 0 - 1
                              IN  IF u < 0 THEN ParseFail
                                  ELSE IF u >= 55296 /\ u <= 56319 /\ u2 >= 56320 /\ u2 <= 57343
                                       THEN ScanString(s, i + 12,
                                                acc \o <<65536 + (u - 55296) * 1024 + (u2 - 56320)>>)
                                       ELSE ScanString(s, i + 6, acc \o <<u>>)
                         ELSE IF Unescape(s[i + 1]) < 0 THEN ParseFail
                              ELSE ScanString(s, i + 2, acc \o <<Unescape(s[i + 1])>>)
               [] c < 32 -> ParseFail
               [] OTHER -> ScanString(s, i + 1, acc \o <<c>>)

IsDigit(c) == c >= 48 /\ c <= 57

RECURSIVE ScanDigits(_, _, _)
ScanDigits(s, i, acc) ==
    IF i <= Len(s) /\ IsDigit(s[i]) THEN ScanDigits(s, i + 1, acc * 10 + (s[i] - 48))
    ELSE [n |-> acc, i |-> i]

\* NUMBER_RE, integer part: -?(0|[1-9][0-9]*); a fraction or exponent
\* after it would make a float.
ScanNumber(s, i) ==
    LET neg == i <= Len(s) /\ s[i] = 45
        j == IF neg THEN i + 1 ELSE i
    IN  IF j > Len(s) \/ ~IsDigit(s[j]) THEN ParseFail
        ELSE LET r == IF s[j] = 48 THEN [n |-> 0, i |-> j + 1] ELSE ScanDigits(s, j, 0)
             IN  IF r.i <= Len(s) /\ s[r.i] \in {46, 101, 69} THEN ParseFail
                 ELSE ParseOk(JInt(IF neg THEN 0 - r.n ELSE r.n), r.i)

\* dict(pairs): a repeated key keeps its first position and its last value.
DictPut(d, key, val) ==
    IF \E j \in 1..Len(d.k) : d.k[j] = key
    THEN JDict(d.k, [j \in 1..Len(d.e) |-> IF d.k[j] = key THEN val ELSE d.e[j]])
    ELSE JDict(Append(d.k, key), Append(d.e, val))

RECURSIVE ScanOnce(_, _), ArrayItems(_, _, _), ObjectItems(_, _, _)
\* py_make_scanner's _scan_once at index i.
ScanOnce(s, i) ==
    IF i > Len(s) THEN ParseFail
    ELSE LET c == s[i]
         IN  CASE c = 34 -> ScanString(s, i + 1, <<>>)
               [] c = 91 ->
                    LET j == SkipWs(s, i + 1)
                    IN  IF j <= Len(s) /\ s[j] = 93 THEN ParseOk(JList(<<>>), j + 1)
                        ELSE ArrayItems(s, j, <<>>)
               [] c = 123 ->
                    LET j == SkipWs(s, i + 1)
                    IN  IF j <= Len(s) /\ s[j] = 125 THEN ParseOk(JDict(<<>>, <<>>), j + 1)
                        ELSE ObjectItems(s, j, JDict(<<>>, <<>>))
               [] c = 110 /\ i + 3 <= Len(s) /\ SubSeq(s, i, i + 3) = <<110, 117, 108, 108>> ->
                    ParseOk(JNull, i + 4)
               [] c = 116 /\ i + 3 <= Len(s) /\ SubSeq(s, i, i + 3) = <<116, 114, 117, 101>> ->
                    ParseOk(JBool(TRUE), i + 4)
               [] c = 102 /\ i + 4 <= Len(s) /\ SubSeq(s, i, i + 4) = <<102, 97, 108, 115, 101>> ->
                    ParseOk(JBool(FALSE), i + 5)
               [] OTHER -> ScanNumber(s, i)

\* JSONArray's loop: a value, then "]" or "," and the next value.
ArrayItems(s, i, acc) ==
    LET r == ScanOnce(s, i)
    IN  IF ~r.ok THEN ParseFail
        ELSE LET j == SkipWs(s, r.i)
             IN  IF j > Len(s) THEN ParseFail
                 ELSE IF s[j] = 93 THEN ParseOk(JList(Append(acc, r.v)), j + 1)
                 ELSE IF s[j] = 44 THEN ArrayItems(s, SkipWs(s, j + 1), Append(acc, r.v))
                 ELSE ParseFail

\* JSONObject's loop: "key" : value, then "}" or "," and the next pair.
ObjectItems(s, i, acc) ==
    IF i > Len(s) \/ s[i] # 34 THEN ParseFail
    ELSE LET key == ScanString(s, i + 1, <<>>)
         IN  IF ~key.ok THEN ParseFail
             ELSE LET c == SkipWs(s, key.i)
                  IN  IF c > Len(s) \/ s[c] # 58 THEN ParseFail
                      ELSE LET r == ScanOnce(s, SkipWs(s, c + 1))
                           IN  IF ~r.ok THEN ParseFail
                               ELSE LET j == SkipWs(s, r.i)
                                        d == DictPut(acc, key.v.s, r.v)
                                    IN  IF j > Len(s) THEN ParseFail
                                        ELSE IF s[j] = 125 THEN ParseOk(d, j + 1)
                                        ELSE IF s[j] = 44 THEN ObjectItems(s, SkipWs(s, j + 1), d)
                                        ELSE ParseFail

\* JSONDecoder.decode: leading whitespace, one value, trailing whitespace,
\* then the end of the text ("Extra data" otherwise).
Decode(s) ==
    LET r == ScanOnce(s, SkipWs(s, 1))
    IN  IF r.ok /\ SkipWs(s, r.i) = Len(s) + 1 THEN ParseOk(r.v, r.i) ELSE ParseFail

\* json.load on a file's bytes: [ok, v]; ~ok is UnicodeDecodeError or
\* JSONDecodeError (both ValueError).
Load(bs) ==
    LET cs == Utf8Decode(bs)
    IN  IF \E j \in 1..Len(cs) : cs[j] = 0 THEN ParseFail ELSE Decode(cs)

\* The bytes a complete write_json leaves in the file: every chunk of
\* json.dump, then the "\n" of f.write("\n"), UTF-8 encoded.
Document(v, indent, ea) == Utf8Encode(Flat(Chunks(v, indent, ea, 0)) \o <<10>>)

(***************************************************************************)
(* Bounds of the model.                                                    *)
(***************************************************************************)
\* write_json calls started in one behaviour (all writers together).
MaxCalls == 2

\* Adverse events in one behaviour: an I/O fault injected into a file
\* operation of write_json, a writer process killed, a power loss, a target
\* removed by another process.
MaxFaults == 1

\* Longest string and longest list or dict of the round-trip values.
MaxStr == 1

MaxLen == 2

\* The calls of mongo.py's functions in a behaviour.
MaxOps == 3

(***************************************************************************)
(* The file system: directories, names (directory entries, each naming an  *)
(* inode or 0 for an absent name), and per inode the bytes a reader sees   *)
(* (data: the page cache) and the contents it may have after a power loss  *)
(* (disk: what was last synced and everything written since, for the       *)
(* kernel writes dirty pages back when it chooses).  Directory operations are taken to be journalled in order and to survive *)
(* a power loss, which is the worst case for the target: a rename outlives *)
(* the crash whether or not the renamed file's data was synced.            *)
(***************************************************************************)
Writers == {"w1", "w2"}

\* A name: a directory, a base name, and 0 for a regular name or a token
\* k >= 1 for the temporary name ".<base>.<k>.tmp" in the same directory.
PA == [dir |-> "D1", base |-> "a.json", tok |-> 0]

PB == [dir |-> "D1", base |-> "b.json", tok |-> 0]

PC == [dir |-> "D3", base |-> "c.json", tok |-> 0]

NoName == [dir |-> "", base |-> "", tok |-> 0]

Targets == {PA, PB, PC}

\* The directories on the way to d, outermost first: D1 exists from the
\* start, D3 lies in D2 and both are missing at the start.
Ancestors(d) == IF d = "D3" THEN <<"D2", "D3">> ELSE <<d>>

TmpNames(p) == {[dir |-> p.dir, base |-> p.base, tok |-> k] : k \in 1..MaxCalls}

AllNames == Targets \cup UNION {TmpNames(p) : p \in Targets}

Inos == 1..(MaxCalls + 1)

NoExc == [kind |-> "", at |-> ""]

Exc(kind, at) == [kind |-> kind, at |-> at]

VARIABLES
    scn,        \* the scenario: "conc" (two writers, faults), "rd" (atomic writers
                \* and a reader, faults), "rt" (one write without faults, then reads)
    dirs,       \* the directories that exist
    names,      \* name -> inode, 0 when the name is absent
    data,       \* inode -> bytes (what a reader of the file gets)
    disk,       \* inode -> the contents the file may have after a power loss
    wr,         \* writer -> the frame of its write_json call
    rd,         \* the frame of the reader's read_json call
    ncalls,     \* write_json calls started
    nfault,     \* adverse events so far
    committed,  \* history: target -> the documents an atomic call renamed onto it
    lastRen,    \* history: target -> the writer whose os.replace came last ("" none)
    fb,         \* the frame of a json.dump call that meets values without a
                \* native representation (the fallback encoder)
    mg          \* mongo.py: the module's globals, the clients and the threads

vars == <<scn, dirs, names, data, disk, wr, rd, ncalls, nfault, committed, lastRen, fb, mg>>

\* The frame of write_json: its parameters and locals, the text layer's
\* buffer and file offset, the exception in flight, and history fields
\* (orig: the first exception raised; steps: the steps completed; made:
\* the names the call created; modif: whether the call changed what the
\* target path holds; unlinkFailed; noParent: the parent directory was
\* missing when the file was opened; renames: os.replace calls made;
\* stray: the temporary file was still in the directory when the call
\* ended; shared: another call on the same path ran during this one or
\* started after it).
IdleW ==
    [pc |-> "idle", path |-> NoName, data |-> JNull, atomic |-> TRUE, cp |-> TRUE,
     indent |-> <<>>, ea |-> FALSE, tmp |-> NoName, fd |-> 0, buf |-> <<>>, pos |-> 0,
     exc |-> NoExc, orig |-> NoExc, steps |-> <<>>, made |-> {}, modif |-> FALSE,
     unlinkFailed |-> FALSE, noParent |-> FALSE, renames |-> 0, stray |-> FALSE,
     shared |-> FALSE]

\* The frame of read_json: kind is "" while running, then "value",
\* "FileNotFoundError" or "ValueError".  History: seen are the bytes read,
\* sawAbsent whether the path was found absent and at which statement,
\* epoch the number of write_json calls started before the read.
IdleR ==
    [pc |-> "idle", path |-> NoName, fd |-> 0, kind |-> "", v |-> JNull, seen |-> <<>>,
     sawAbsent |-> FALSE, at |-> "", epoch |-> 0]

(***************************************************************************)
(* The values written.                                                     *)
(***************************************************************************)
\* The document at PA before any call.
OldValue == JList(<<JInt(0)>>)

\* The values of the concurrent scenario: two documents and a value whose
\* serialization raises after two chunks were written.
ConcValues(w) ==
    IF w = "w1" THEN {JList(<<JInt(1)>>), JList(<<JInt(1), JBad>>)}
    ELSE {JList(<<JStr(<<233>>)>>)}

\* The characters of the round-trip strings: a, ", \, newline, DEL, e-acute
\* and an emoji above U+FFFF.
Alphabet == {97, 34, 92, 10, 127, 233, 128512}

Strs == UNION {[1..m -> Alphabet] : m \in 0..MaxStr}

Scalars ==
    {JNull, JBool(TRUE), JBool(FALSE), JInt(0), JInt(0 - 7), JInt(120)} \cup {JStr(s) : s \in Strs}

\* What the lists and dicts hold: scalars and one level of nesting.
Inner ==
    {JNull, JInt(0 - 7), JStr(<<233, 34>>), JList(<<>>), JDict(<<>>, <<>>),
     JList(<<JBool(TRUE)>>), JDict(<<<<233>>>>, <<JList(<<JInt(120)>>)>>)}

Keys == {<<97>>, <<233, 92>>, <<>>}

RTValues ==
    Scalars
    \cup UNION {{JList(es) : es \in [1..m -> Inner]} : m \in 0..MaxLen}
    \cup UNION {{JDict(ks, es) : ks \in {f \in [1..m -> Keys] : \A a, b \in 1..m : a # b => f[a] # f[b]},
                                es \in [1..m -> {JNull, JStr(<<128512>>), JList(<<JInt(0)>>)}]}
                : m \in 1..MaxLen}

PathMenu == IF scn = "conc" THEN Targets ELSE {PA, PB}

AtomicMenu == IF scn = "rd" THEN {TRUE} ELSE BOOLEAN

CpMenu == IF scn = "conc" THEN BOOLEAN ELSE {TRUE}

ValueMenu(w) == IF scn = "rt" THEN RTValues ELSE ConcValues(w)

IndentMenu == IF scn = "rt" THEN {<<>>, <<0>>, <<2>>} ELSE {<<2>>}

EaMenu == IF scn = "rt" THEN BOOLEAN ELSE {FALSE}

\* The outcomes of a file operation: it works, or (while faults are left)
\* it fails.
Faulty == IF nfault < MaxFaults THEN {FALSE, TRUE} ELSE {FALSE}

(***************************************************************************)
(* File-system helpers.                                                    *)
(***************************************************************************)
\* The bytes of a file after write(2) of bs at offset pos.
WriteAt(d, pos, bs) ==
    LET pad == IF Len(d) < pos THEN d \o [j \in 1..(pos - Len(d)) |-> 0] ELSE d
    IN  SubSeq(pad, 1, pos) \o bs \o SubSeq(pad, pos + Len(bs) + 1, Len(pad))

OpenInos(wrs, rdr) == ({wrs[w].fd : w \in Writers} \cup {rdr.fd}) \ {0}

Referenced(nm, open, i) == i \in open \/ (\E n \in AllNames : nm[n] = i)

\* An inode with no name and no open descriptor is freed.
Reap(nm, dt, open) == [i \in Inos |-> IF Referenced(nm, open, i) THEN dt[i] ELSE <<>>]

ReapDisk(nm, dk, open) == [i \in Inos |-> IF Referenced(nm, open, i) THEN dk[i] ELSE {<<>>}]

FreeIno(nm, open) ==
    CHOOSE i \in Inos :
        /\ i \notin open /\ (\A n \in AllNames : nm[n] # i)
        /\ \A j \in Inos : (j \notin open /\ (\A n \in AllNames : nm[n] # j)) => i <= j

\* What a path holds: nothing, or a file's bytes.
TargetView(nm, dt, p) == IF nm[p] = 0 THEN <<0, <<>>>> ELSE <<1, dt[nm[p]]>>

\* An open that does not need the parent directory.
DirExistsAlways(ds, p) == TRUE

DirExists(ds, p) == p.dir \in ds

\* A tempfile that takes the first candidate name without O_EXCL.
FreshTmpFixed(nm, p) == [dir |-> p.dir, base |-> p.base, tok |-> 1]

\* A temporary name that does not depend on the target: one per directory.
FreshTmpPerDir(nm, p) ==
    [dir |-> p.dir, base |-> IF p.dir = "D1" THEN "a.json" ELSE p.base, tok |-> 1]

\* tempfile's name for a new file: O_CREAT|O_EXCL on fresh random names
\* until one is free; the least free token stands for that name.
FreshTmp(nm, p) ==
    CHOOSE n \in TmpNames(p) : nm[n] = 0 /\ \A m \in TmpNames(p) : nm[m] = 0 => n.tok <= m.tok

\* One step of writer w: its new frame, the new names and file contents,
\* and the inodes the step synced.  Bytes written without a sync may or may
\* not be on disk.  The history field modif records whether the step
\* changed what the call's target path holds, stray whether the call ends
\* with its temporary file still in the directory.
Commit(w, rec, nm, dt, synced) ==
    LET changed == rec.path # NoName /\ wr[w].path = rec.path
                   /\ TargetView(nm, dt, rec.path) # TargetView(names, data, rec.path)
        left == rec.pc = "done" /\ rec.tmp # NoName /\ nm[rec.tmp] # 0
        wr2 == [wr EXCEPT ![w] = [rec EXCEPT !.modif = rec.modif \/ changed, !.stray = left]]
        dk == [i \in Inos |-> IF i \in synced THEN {dt[i]}
                              ELSE IF dt[i] # data[i] THEN disk[i] \cup {dt[i]}
                              ELSE disk[i]]
    IN  /\ wr' = wr2
        /\ names' = nm
        /\ data' = Reap(nm, dt, OpenInos(wr2, rd))
        /\ disk' = ReapDisk(nm, dk, OpenInos(wr2, rd))

\* The text layer hands its buffer to the file: write(2) at the offset.
Flushed(rec, dt) == [dt EXCEPT ![rec.fd] = WriteAt(@, rec.pos, rec.buf)]

\* A handler that renames the temporary file instead of unlinking it.
NextPcRenameInHandler(step, atomic, ok) ==
    CASE step = "dump" -> IF ok THEN "newline" ELSE IF atomic THEN "hclose" ELSE "close"
      [] step = "newline" ->
            IF ok THEN (IF atomic THEN "flush" ELSE "close")
            ELSE IF atomic THEN "hclose" ELSE "close"
      [] step = "flush" -> IF ok THEN "fsync" ELSE "hclose"
      [] step = "fsync" -> IF ok THEN "close" ELSE "hclose"
      [] step = "close" -> IF ok /\ atomic THEN "replace" ELSE "done"
      [] step = "hclose" -> "replace"
      [] OTHER -> "done"

\* A writer that closes after the flush, without the fsync.
NextPcNoFsync(step, atomic, ok) ==
    CASE step = "dump" -> IF ok THEN "newline" ELSE IF atomic THEN "hclose" ELSE "close"
      [] step = "newline" ->
            IF ok THEN (IF atomic THEN "flush" ELSE "close")
            ELSE IF atomic THEN "hclose" ELSE "close"
      [] step = "flush" -> IF ok THEN "close" ELSE "hclose"
      [] step = "close" -> IF ok /\ atomic THEN "replace" ELSE "done"
      [] step = "hclose" -> "hunlink"
      [] OTHER -> "done"

\* write_json's control flow: the step after `step`, given whether it
\* succeeded.  A failure inside the try block (dump, newline, flush,
\* fsync) enters the except handler (hclose, hunlink) in atomic mode and
\* leaves the with block (close) in non-atomic mode; os.replace follows
\* the close that ends the with block, and only without an exception.
NextPc(step, atomic, ok) ==
    CASE step = "dump" -> IF ok THEN "newline" ELSE IF atomic THEN "hclose" ELSE "close"
      [] step = "newline" ->
            IF ok THEN (IF atomic THEN "flush" ELSE "close")
            ELSE IF atomic THEN "hclose" ELSE "close"
      [] step = "flush" -> IF ok THEN "fsync" ELSE "hclose"
      [] step = "fsync" -> IF ok THEN "close" ELSE "hclose"
      [] step = "close" -> IF ok /\ atomic THEN "replace" ELSE "done"
      [] step = "hclose" -> "hunlink"
      [] OTHER -> "done"

\* A failure that is swallowed: the call goes on its way without an
\* exception in flight.
RaiseSwallowed(rec, kind, at, pc) ==
    [rec EXCEPT !.orig = IF rec.orig = NoExc THEN Exc(kind, at) ELSE rec.orig, !.pc = pc]

\* The frame after a step raised: the exception in flight, and the first
\* exception of the call kept as history.
Raise(rec, kind, at, pc) ==
    [rec EXCEPT !.exc = Exc(kind, at),
                !.orig = IF rec.orig = NoExc THEN Exc(kind, at) ELSE rec.orig,
                !.pc = pc]

Step(rec, step, pc) == [rec EXCEPT !.steps = Append(rec.steps, step), !.pc = pc]

\* An fsync that makes nothing durable.
FsyncedNothing(rec) == {}

\* The inodes os.fsync(tmp.fileno()) makes durable.
Fsynced(rec) == {rec.fd}

\* A read_json that returns a default for an absent path.
NotFoundDefault(rdr) ==
    [rdr EXCEPT !.pc = "done", !.kind = "value", !.v = JNull, !.sawAbsent = TRUE, !.at = rdr.pc]

\* What read_json does on finding the path absent, in the check or in the
\* open: FileNotFoundError leaves the call.
NotFound(rdr) ==
    [rdr EXCEPT !.pc = "done", !.kind = "FileNotFoundError", !.sawAbsent = TRUE, !.at = rdr.pc]

(***************************************************************************)
(* write_json, one action per statement that touches the file system or    *)
(* can raise.                                                              *)
(***************************************************************************)
\* The call: path = Path(file_path); the parameters are bound.
WCall(w) ==
    /\ wr[w].pc \in {"idle", "done"}
    /\ ncalls < MaxCalls
    /\ rd.pc \in {"idle", "done"} \/ scn # "rt"
    /\ \E p \in PathMenu, v \in ValueMenu(w), at \in AtomicMenu, cp \in CpMenu,
          ind \in IndentMenu, ea \in EaMenu :
          LET others == {o \in Writers \ {w} : wr[o].path = p}
              rivals == {o \in others : wr[o].pc \notin {"idle", "done"}}
          IN  wr' = [o \in Writers |->
                        IF o = w
                        THEN [IdleW EXCEPT !.pc = IF cp THEN "mkdir" ELSE "open", !.path = p,
                                           !.data = v, !.atomic = at, !.cp = cp,
                                           !.indent = ind, !.ea = ea, !.shared = rivals # {}]
                        ELSE IF o \in others THEN [wr[o] EXCEPT !.shared = TRUE]
                        ELSE wr[o]]
    /\ ncalls' = ncalls + 1
    /\ UNCHANGED <<fb, mg, scn, dirs, names, data, disk, rd, nfault, committed, lastRen>>

\* path.parent.mkdir(parents=True, exist_ok=True): one os.mkdir per step,
\* outermost missing directory first; an existing directory is no error.
WMkdir(w) ==
    /\ wr[w].pc = "mkdir"
    /\ \E f \in Faulty :
          LET rec == wr[w]
              anc == Ancestors(rec.path.dir)
              missing == {j \in 1..Len(anc) : anc[j] \notin dirs}
              first == CHOOSE j \in missing : \A m \in missing : j <= m
          IN  /\ nfault' = nfault + (IF f THEN 1 ELSE 0)
              /\ IF f THEN /\ wr' = [wr EXCEPT ![w] = Raise(rec, "OSError", "mkdir", "done")]
                           /\ dirs' = dirs
                 ELSE IF missing = {}
                 THEN /\ wr' = [wr EXCEPT ![w] = Step(rec, "mkdir", "open")]
                      /\ dirs' = dirs
                 ELSE /\ wr' = wr
                      /\ dirs' = dirs \cup {anc[first]}
    /\ UNCHANGED <<fb, mg, scn, names, data, disk, rd, ncalls, committed, lastRen>>

\* Non-atomic mode: path.open("w", ...) creates the file or truncates it.
WOpenDirect(w) ==
    /\ wr[w].pc = "open"
    /\ ~wr[w].atomic
    /\ \E f \in Faulty :
          LET rec == wr[w]
              p == rec.path
              i == IF names[p] = 0 THEN FreeIno(names, OpenInos(wr, rd)) ELSE names[p]
          IN  /\ DirExists(dirs, p) \/ ~f
              /\ nfault' = nfault + (IF f THEN 1 ELSE 0)
              /\ IF ~DirExists(dirs, p)
                 THEN Commit(w, [Raise(rec, "FileNotFoundError", "open", "done")
                                    EXCEPT !.noParent = TRUE], names, data, {})
                 ELSE IF f
                 THEN Commit(w, Raise(rec, "OSError", "open", "done"), names, data, {})
                 ELSE Commit(w,
                         [Step(rec, "open", "dump") EXCEPT
                             !.fd = i, !.pos = 0, !.buf = <<>>,
                             !.made = IF names[p] = 0 THEN {p} ELSE {}],
                         [names EXCEPT ![p] = i],
                         [data EXCEPT ![i] = <<>>],
                         {})
    /\ UNCHANGED <<fb, mg, scn, dirs, rd, ncalls, committed, lastRen>>

\* Atomic mode: NamedTemporaryFile(mode="w", dir=path.parent, delete=False,
\* prefix=".<name>.", suffix=".tmp") creates a new, empty file.
WMkTemp(w) ==
    /\ wr[w].pc = "open"
    /\ wr[w].atomic
    /\ \E f \in Faulty :
          LET rec == wr[w]
              p == rec.path
              n == FreshTmp(names, p)
              i == FreeIno(names, OpenInos(wr, rd))
          IN  /\ DirExists(dirs, p) \/ ~f
              /\ nfault' = nfault + (IF f THEN 1 ELSE 0)
              /\ IF ~DirExists(dirs, p)
                 THEN Commit(w, [Raise(rec, "FileNotFoundError", "mktemp", "done")
                                    EXCEPT !.noParent = TRUE], names, data, {})
                 ELSE IF f
                 THEN Commit(w, Raise(rec, "OSError", "mktemp", "done"), names, data, {})
                 ELSE Commit(w,
                         [Step(rec, "mktemp", "dump") EXCEPT
                             !.tmp = n, !.fd = i, !.pos = 0, !.buf = <<>>, !.made = {n}],
                         [names EXCEPT ![n] = i],
                         [data EXCEPT ![i] = <<>>],
                         {})
    /\ UNCHANGED <<fb, mg, scn, dirs, rd, ncalls, committed, lastRen>>

\* json.dump(data, f, ...): every chunk is written into the text layer's
\* buffer (the documents are smaller than the buffer, so nothing reaches
\* the file before a flush or close).  The encoder raises when it reaches
\* a value it cannot serialize, after the chunks before it were written;
\* a write can fail.
WDump(w) ==
    /\ wr[w].pc = "dump"
    /\ \E f \in Faulty :
          LET rec == wr[w]
              cs == Chunks(rec.data, rec.indent, rec.ea, 0)
              good == GoodPrefix(cs)
              raises == Len(good) < Len(cs)
              rec2 == [rec EXCEPT !.buf = rec.buf \o Utf8Encode(Flat(good))]
          IN  /\ raises => ~f
              /\ nfault' = nfault + (IF f THEN 1 ELSE 0)
              /\ IF raises
                 THEN Commit(w, Raise(rec2, "TypeError", "dump", NextPc("dump", rec.atomic, FALSE)),
                             names, data, {})
                 ELSE IF f
                 THEN Commit(w, Raise(rec2, "OSError", "dump", NextPc("dump", rec.atomic, FALSE)),
                             names, data, {})
                 ELSE Commit(w, Step(rec2, "dump", NextPc("dump", rec.atomic, TRUE)),
                             names, data, {})
    /\ UNCHANGED <<fb, mg, scn, dirs, rd, ncalls, committed, lastRen>>

\* f.write("\n")
WNewline(w) ==
    /\ wr[w].pc = "newline"
    /\ \E f \in Faulty :
          LET rec == wr[w]
          IN  /\ nfault' = nfault + (IF f THEN 1 ELSE 0)
              /\ IF f
                 THEN Commit(w, Raise(rec, "OSError", "newline", NextPc("newline", rec.atomic, FALSE)),
                             names, data, {})
                 ELSE Commit(w, Step([rec EXCEPT !.buf = rec.buf \o <<10>>], "newline",
                                     NextPc("newline", rec.atomic, TRUE)),
                             names, data, {})
    /\ UNCHANGED <<fb, mg, scn, dirs, rd, ncalls, committed, lastRen>>

\* tmp.flush(): the buffer goes to the file.
WFlush(w) ==
    /\ wr[w].pc = "flush"
    /\ \E f \in Faulty :
          LET rec == wr[w]
          IN  /\ nfault' = nfault + (IF f THEN 1 ELSE 0)
              /\ IF f
                 THEN Commit(w, Raise(rec, "OSError", "flush", NextPc("flush", rec.atomic, FALSE)),
                             names, data, {})
                 ELSE Commit(w, Step([rec EXCEPT !.buf = <<>>, !.pos = rec.pos + Len(rec.buf)],
                                     "flush", NextPc("flush", rec.atomic, TRUE)),
                             names, Flushed(rec, data), {})
    /\ UNCHANGED <<fb, mg, scn, dirs, rd, ncalls, committed, lastRen>>

\* os.fsync(tmp.fileno()): the file's bytes are on disk.
WFsync(w) ==
    /\ wr[w].pc = "fsync"
    /\ \E f \in Faulty :
          LET rec == wr[w]
          IN  /\ nfault' = nfault + (IF f THEN 1 ELSE 0)
              /\ IF f
                 THEN Commit(w, Raise(rec, "OSError", "fsync", NextPc("fsync", rec.atomic, FALSE)),
                             names, data, {})
                 ELSE Commit(w, Step(rec, "fsync", NextPc("fsync", rec.atomic, TRUE)),
                             names, data, Fsynced(rec))
    /\ UNCHANGED <<fb, mg, scn, dirs, rd, ncalls, committed, lastRen>>

\* The end of the with block: the file object's close flushes what is
\* buffered and closes the descriptor.  A failing close closes the
\* descriptor all the same, loses the buffer, and its exception is the one
\* that leaves the with block.
WClose(w) ==
    /\ wr[w].pc = "close"
    /\ \E f \in Faulty :
          LET rec == wr[w]
              pc2 == NextPc("close", rec.atomic, ~f /\ rec.exc = NoExc)
          IN  /\ nfault' = nfault + (IF f THEN 1 ELSE 0)
              /\ IF f
                 THEN Commit(w, [Raise(rec, "OSError", "close", pc2) EXCEPT !.fd = 0, !.buf = <<>>],
                             names, data, {})
                 ELSE Commit(w, [Step(rec, "close", pc2) EXCEPT !.fd = 0, !.buf = <<>>],
                             names, Flushed(rec, data), {})
    /\ UNCHANGED <<fb, mg, scn, dirs, rd, ncalls, committed, lastRen>>

\* The except handler's tmp.close(): as the close above; when it raises,
\* its exception replaces the one being handled (the finally clause still
\* runs, the bare raise is not reached).
WHClose(w) ==
    /\ wr[w].pc = "hclose"
    /\ \E f \in Faulty :
          LET rec == wr[w]
              pc2 == NextPc("hclose", rec.atomic, ~f)
          IN  /\ nfault' = nfault + (IF f THEN 1 ELSE 0)
              /\ IF f
                 THEN Commit(w, [Raise(rec, "OSError", "hclose", pc2) EXCEPT !.fd = 0, !.buf = <<>>],
                             names, data, {})
                 ELSE Commit(w, [rec EXCEPT !.pc = pc2, !.fd = 0, !.buf = <<>>],
                             names, Flushed(rec, data), {})
    /\ UNCHANGED <<fb, mg, scn, dirs, rd, ncalls, committed, lastRen>>

\* with contextlib.suppress(Exception): tmp_path.unlink(missing_ok=True);
\* then the exception in flight leaves the call.
WHUnlink(w) ==
    /\ wr[w].pc = "hunlink"
    /\ \E f \in Faulty :
          LET rec == wr[w]
              pc2 == NextPc("hunlink", rec.atomic, ~f)
          IN  /\ nfault' = nfault + (IF f THEN 1 ELSE 0)
              /\ IF f
                 THEN Commit(w, [rec EXCEPT !.pc = pc2, !.unlinkFailed = TRUE], names, data, {})
                 ELSE Commit(w, [rec EXCEPT !.pc = pc2], [names EXCEPT ![rec.tmp] = 0], data, {})
    /\ UNCHANGED <<fb, mg, scn, dirs, rd, ncalls, committed, lastRen>>

\* os.replace(tmp_path, path): one atomic rename.
WReplace(w) ==
    /\ wr[w].pc = "replace"
    /\ \E f \in Faulty :
          LET rec == wr[w]
              pc2 == NextPc("replace", rec.atomic, ~f)
          IN  /\ nfault' = nfault + (IF f THEN 1 ELSE 0)
              /\ IF f \/ names[rec.tmp] = 0
                 THEN /\ Commit(w, Raise(rec, IF f THEN "OSError" ELSE "FileNotFoundError",
                                         "replace", pc2), names, data, {})
                      /\ UNCHANGED <<committed, lastRen>>
                 ELSE /\ Commit(w, [Step(rec, "replace", pc2) EXCEPT !.renames = rec.renames + 1],
                                [names EXCEPT ![rec.path] = names[rec.tmp], ![rec.tmp] = 0],
                                data, {})
                      /\ committed' = [committed EXCEPT ![rec.path] =
                                          @ \cup {Document(rec.data, rec.indent, rec.ea)}]
                      /\ lastRen' = [lastRen EXCEPT ![rec.path] = w]
    /\ UNCHANGED <<fb, mg, scn, dirs, rd, ncalls>>

(***************************************************************************)
(* read_json                                                               *)
(***************************************************************************)
RCall(p) ==
    /\ rd.pc \in {"idle", "done"}
    /\ scn = "rt" => \A w \in Writers : wr[w].pc \in {"idle", "done"}
    /\ rd' = [IdleR EXCEPT !.pc = "exists", !.path = p, !.epoch = ncalls]
    /\ UNCHANGED <<fb, mg, scn, dirs, names, data, disk, wr, ncalls, nfault, committed, lastRen>>

\* if not path.exists(): raise FileNotFoundError(...)
RExists ==
    /\ rd.pc = "exists"
    /\ rd' = IF names[rd.path] = 0 THEN NotFound(rd) ELSE [rd EXCEPT !.pc = "open"]
    /\ UNCHANGED <<fb, mg, scn, dirs, names, data, disk, wr, ncalls, nfault, committed, lastRen>>

\* path.open("r", ...): open raises FileNotFoundError itself when the name
\* has gone since the check.
ROpen ==
    /\ rd.pc = "open"
    /\ rd' = IF names[rd.path] = 0 THEN NotFound(rd)
             ELSE [rd EXCEPT !.pc = "load", !.fd = names[rd.path]]
    /\ UNCHANGED <<fb, mg, scn, dirs, names, data, disk, wr, ncalls, nfault, committed, lastRen>>

\* return json.load(f), and the with block closes the file.
RLoad ==
    /\ rd.pc = "load"
    /\ LET r == Load(data[rd.fd])
           rd2 == [rd EXCEPT !.pc = "done", !.fd = 0, !.seen = data[rd.fd],
                             !.kind = IF r.ok THEN "value" ELSE "ValueError", !.v = r.v]
       IN  /\ rd' = rd2
           /\ data' = Reap(names, data, OpenInos(wr, rd2))
           /\ disk' = ReapDisk(names, disk, OpenInos(wr, rd2))
    /\ UNCHANGED <<fb, mg, scn, dirs, names, wr, ncalls, nfault, committed, lastRen>>

(***************************************************************************)
(* The world outside the calls.                                            *)
(***************************************************************************)
\* The writer's process is killed inside a call: its descriptor is closed,
\* its buffer is lost, what it created stays.
Kill(w) ==
    /\ wr[w].pc \notin {"idle", "done"}
    /\ nfault < MaxFaults
    /\ nfault' = nfault + 1
    /\ LET wr2 == [wr EXCEPT ![w] = IdleW]
       IN  /\ wr' = wr2
           /\ data' = Reap(names, data, OpenInos(wr2, rd))
           /\ disk' = ReapDisk(names, disk, OpenInos(wr2, rd))
    /\ UNCHANGED <<fb, mg, scn, dirs, names, rd, ncalls, committed, lastRen>>

\* Power is lost inside a call: every process is gone and every file holds
\* one of the contents it may have on disk.
PowerLoss ==
    /\ nfault < MaxFaults
    /\ \E w \in Writers : wr[w].pc \notin {"idle", "done"}
    /\ nfault' = nfault + 1
    /\ wr' = [w \in Writers |-> IdleW]
    /\ rd' = IdleR
    /\ \E dt \in [Inos -> UNION {disk[i] : i \in Inos}] :
          /\ \A i \in Inos : dt[i] \in disk[i]
          /\ data' = Reap(names, dt, {})
          /\ disk' = ReapDisk(names, [i \in Inos |-> {dt[i]}], {})
    /\ UNCHANGED <<fb, mg, scn, dirs, names, ncalls, committed, lastRen>>

\* Another process removes a target.
EnvRemove(p) ==
    /\ names[p] # 0
    /\ nfault < MaxFaults
    /\ nfault' = nfault + 1
    /\ names' = [names EXCEPT ![p] = 0]
    /\ data' = Reap([names EXCEPT ![p] = 0], data, OpenInos(wr, rd))
    /\ disk' = ReapDisk([names EXCEPT ![p] = 0], disk, OpenInos(wr, rd))
    /\ UNCHANGED <<fb, mg, scn, dirs, wr, rd, ncalls, committed, lastRen>>

(***************************************************************************)
(* _json_default, the fallback encoder, and the default= argument.         *)
(***************************************************************************)
\* What getattr(value, name, None) finds: no attribute, an attribute that
\* is not callable, a method that raises when called, a method that
\* returns a value; to_epsg can also return None.
Attr == {"absent", "notcallable", "raises", "returns"}

EpsgAttr == Attr \cup {"none"}

\* The values the encoder hands to the fallback: a pathlib.Path, a set
\* (whose elements can be sorted or not) or any other object, with the
\* four probed attributes.
FbValues ==
    [cls : {"path", "set", "other"}, sortable : BOOLEAN, to_string : Attr, to_wkt : Attr,
     to_epsg : EpsgAttr, item : Attr]

\* callable(getattr(value, name, None))
Callable(a) == a \notin {"absent", "notcallable"}

\* What _json_default returns: the rule that produced it and the value.
FbResult(rule, val) == [rule |-> rule, val |-> val]

\* A fallback that probes to_wkt before to_string.
JsonDefaultWktFirst(v) ==
    IF v.cls = "path" THEN FbResult("Path", "str(value)")
    ELSE IF v.cls = "set"
    THEN (IF v.sortable THEN FbResult("set", "sorted(value)") ELSE FbResult("set", "list(value)"))
    ELSE IF Callable(v.to_wkt) /\ v.to_wkt # "raises" THEN FbResult("to_wkt", "to_wkt()")
    ELSE IF Callable(v.to_string) /\ v.to_string # "raises"
    THEN FbResult("to_string", "to_string()")
    ELSE IF Callable(v.to_epsg) /\ v.to_epsg \notin {"raises", "none"}
    THEN FbResult("to_epsg", "EPSG:code")
    ELSE IF Callable(v.item) /\ v.item # "raises" THEN FbResult("item", "item()")
    ELSE FbResult("str", "str(value)")

\* _json_default(value): the isinstance tests, then the probes; a call
\* that raises falls through to the next probe (except Exception: pass),
\* to_epsg() returning None falls through, str(value) is the last resort.
JsonDefault(v) ==
    IF v.cls = "path" THEN FbResult("Path", "str(value)")
    ELSE IF v.cls = "set"
    THEN (IF v.sortable THEN FbResult("set", "sorted(value)") ELSE FbResult("set", "list(value)"))
    ELSE IF Callable(v.to_string) /\ v.to_string # "raises"
    THEN FbResult("to_string", "to_string()")
    ELSE IF Callable(v.to_wkt) /\ v.to_wkt # "raises" THEN FbResult("to_wkt", "to_wkt()")
    ELSE IF Callable(v.to_epsg) /\ v.to_epsg \notin {"raises", "none"}
    THEN FbResult("to_epsg", "EPSG:code")
    ELSE IF Callable(v.item) /\ v.item # "raises" THEN FbResult("item", "item()")
    ELSE FbResult("str", "str(value)")

\* The default= argument of write_json: None, a function (any callable
\* that is true in a boolean context), or a callable object that is false
\* in a boolean context (one whose __bool__ returns False or whose __len__
\* returns 0).
Defaults == {"none", "function", "falsy callable"}

\* bool(default)
Truthy(d) == d = "function"

\* default=default or _json_default, in the non-atomic json.dump call and
\* in the atomic one.
EffectiveDefault(atomic, d) ==
    IF ~atomic THEN (IF Truthy(d) THEN "caller" ELSE "_json_default")
    ELSE (IF Truthy(d) THEN "caller" ELSE "_json_default")

\* The frame of the json.dump call before it starts: the mode, the
\* default= argument, the value without a native representation,
\* what the encoder got for it, and how often each encoder was invoked.
IdleFb ==
    [pc |-> "idle", atomic |-> TRUE, default |-> "none",
     v |-> [cls |-> "other", sortable |-> FALSE, to_string |-> "absent", to_wkt |-> "absent",
            to_epsg |-> "absent", item |-> "absent"],
     out |-> FbResult("", ""), viaCaller |-> 0, viaDefault |-> 0]

\* write_json(path, data, atomic=..., default=...) with a value in data
\* that json has no native representation for.
FbCall ==
    /\ fb.pc = "idle"
    /\ \E at \in BOOLEAN, d \in Defaults, v \in FbValues :
          fb' = [IdleFb EXCEPT !.pc = "encode", !.atomic = at, !.default = d, !.v = v]
    /\ UNCHANGED <<mg, scn, dirs, names, data, disk, wr, rd, ncalls, nfault, committed, lastRen>>

\* The encoder reaches the value and calls the default= it was given.
FbEncode ==
    /\ fb.pc = "encode"
    /\ fb' = IF EffectiveDefault(fb.atomic, fb.default) = "caller"
             THEN [fb EXCEPT !.pc = "done", !.out = FbResult("caller", "default(value)"),
                             !.viaCaller = fb.viaCaller + 1]
             ELSE [fb EXCEPT !.pc = "done", !.out = JsonDefault(fb.v),
                             !.viaDefault = fb.viaDefault + 1]
    /\ UNCHANGED <<mg, scn, dirs, names, data, disk, wr, rd, ncalls, nfault, committed, lastRen>>

(***************************************************************************)
(* mongo.py: the cached clients and the session helpers.                   *)
(***************************************************************************)
Threads == {"t1", "t2"}

\* The two client families: PyMongo (_sync_client) and Motor (_async_client).
Kinds == {"sync", "async"}

\* The uri argument of get_*_client: None (get_mongo_uri() is used) or a uri.
Uris == {"None", "mongodb://other"}

\* A client object: its family, the uri it was built with, whether it is
\* open, and history: how often close() was called on it, whether a
\* session helper built it, and how many close_*_client calls had
\* started when it was built.
NewClient(kind, uri, helper, epoch) ==
    [kind |-> kind, uri |-> uri, open |-> TRUE, closes |-> 0, helper |-> helper, epoch |-> epoch]

\* client.close()
Closed(c) == [c EXCEPT !.open = FALSE, !.closes = c.closes + 1]

\* The frame of a thread: the function it runs, its position, its
\* arguments and locals (client, created_client, the session), the value
\* returned (-1: none yet; 0: None; else a client), the exception that
\* left the call, and history: the client the call built and whether the
\* client it returned was closed when it returned.
IdleT ==
    [op |-> "", pc |-> "idle", kind |-> "sync", uri |-> "None", client |-> 0, created |-> FALSE,
     sess |-> "none", ret |-> 0 - 1, exc |-> "", built |-> 0, retClosed |-> FALSE]

\* The module after import: both cache slots are None (0), no client
\* exists, no thread is in a call.  History: ops counts the calls started,
\* closeCalls the close_*_client calls started per family.
IdleMg ==
    [slot |-> [k \in Kinds |-> 0], clients |-> <<>>, th |-> [t \in Threads |-> IdleT],
     ops |-> 0, closeCalls |-> [k \in Kinds |-> 0]]

\* A session helper that closes the client whether it created it or not.
SessionClosesAlways(created) == TRUE

\* if created_client: client.close()
SessionCloses(created) == created

\* The rest of the state is not touched by mongo.py.
MgFrame == UNCHANGED <<fb, scn, dirs, names, data, disk, wr, rd, ncalls, committed, lastRen>>

\* A call of get_sync_client / get_async_client(uri).
MGetCall(t) ==
    /\ mg.th[t].pc \in {"idle", "done"}
    /\ mg.ops < MaxOps
    /\ \E k \in Kinds, u \in Uris :
          mg' = [mg EXCEPT !.th[t] = [IdleT EXCEPT !.op = "get", !.pc = "check", !.kind = k,
                                                    !.uri = u],
                           !.ops = mg.ops + 1]
    /\ MgFrame /\ UNCHANGED nfault

\* if _sync_client is None:
MGetCheck(t) ==
    /\ mg.th[t].op = "get" /\ mg.th[t].pc = "check"
    /\ mg' = [mg EXCEPT !.th[t].pc = IF mg.slot[mg.th[t].kind] = 0 THEN "new" ELSE "ret"]
    /\ MgFrame /\ UNCHANGED nfault

\* _new_sync_client(uri=uri): a new client is constructed.
MGetNew(t) ==
    /\ mg.th[t].op = "get" /\ mg.th[t].pc = "new"
    /\ LET f == mg.th[t]
           c == NewClient(f.kind, f.uri, FALSE, mg.closeCalls[f.kind])
       IN  mg' = [mg EXCEPT !.clients = Append(mg.clients, c),
                            !.th[t].built = Len(mg.clients) + 1,
                            !.th[t].pc = "store"]
    /\ MgFrame /\ UNCHANGED nfault

\* _sync_client = <the new client>
MGetStore(t) ==
    /\ mg.th[t].op = "get" /\ mg.th[t].pc = "store"
    /\ mg' = [mg EXCEPT !.slot[mg.th[t].kind] = mg.th[t].built, !.th[t].pc = "ret"]
    /\ MgFrame /\ UNCHANGED nfault

\* return _sync_client: the global is read again.
MGetRet(t) ==
    /\ mg.th[t].op = "get" /\ mg.th[t].pc = "ret"
    /\ LET c == mg.slot[mg.th[t].kind]
       IN  mg' = [mg EXCEPT !.th[t].ret = c,
                            !.th[t].retClosed = (c # 0 /\ ~mg.clients[c].open),
                            !.th[t].pc = "done"]
    /\ MgFrame /\ UNCHANGED nfault

\* A call of close_sync_client / close_async_client().
MCloseCall(t) ==
    /\ mg.th[t].pc \in {"idle", "done"}
    /\ mg.ops < MaxOps
    /\ \E k \in Kinds :
          mg' = [mg EXCEPT !.th[t] = [IdleT EXCEPT !.op = "close", !.pc = "check", !.kind = k],
                           !.ops = mg.ops + 1,
                           !.closeCalls[k] = mg.closeCalls[k] + 1]
    /\ MgFrame /\ UNCHANGED nfault

\* if _sync_client:
MCloseCheck(t) ==
    /\ mg.th[t].op = "close" /\ mg.th[t].pc = "check"
    /\ mg' = [mg EXCEPT !.th[t].pc = IF mg.slot[mg.th[t].kind] # 0 THEN "close" ELSE "done"]
    /\ MgFrame /\ UNCHANGED nfault

\* _sync_client.close(): the global is read again; None has no close.
MCloseClose(t) ==
    /\ mg.th[t].op = "close" /\ mg.th[t].pc = "close"
    /\ LET c == mg.slot[mg.th[t].kind]
       IN  mg' = IF c = 0
                 THEN [mg EXCEPT !.th[t].exc = "AttributeError", !.th[t].pc = "done"]
                 ELSE [mg EXCEPT !.clients[c] = Closed(mg.clients[c]), !.th[t].pc = "clear"]
    /\ MgFrame /\ UNCHANGED nfault

\* _sync_client = None
MCloseClear(t) ==
    /\ mg.th[t].op = "close" /\ mg.th[t].pc = "clear"
    /\ mg' = [mg EXCEPT !.slot[mg.th[t].kind] = 0, !.th[t].pc = "done"]
    /\ MgFrame /\ UNCHANGED nfault

\* Entering `with sync_session(client):` / `async with async_session(client):`
\* with no client or with a client the caller holds.
MSessCall(t) ==
    /\ mg.th[t].pc \in {"idle", "done"}
    /\ mg.ops < MaxOps
    /\ \E k \in Kinds :
       \E c \in {0} \cup {i \in 1..Len(mg.clients) : mg.clients[i].kind = k} :
          mg' = [mg EXCEPT !.th[t] = [IdleT EXCEPT !.op = "session", !.pc = "begin", !.kind = k,
                                                    !.client = c],
                           !.ops = mg.ops + 1]
    /\ MgFrame /\ UNCHANGED nfault

\* created_client = False; if client is None: client = _new_sync_client();
\* created_client = True
MSessBegin(t) ==
    /\ mg.th[t].op = "session" /\ mg.th[t].pc = "begin"
    /\ LET f == mg.th[t]
           c == NewClient(f.kind, "None", TRUE, mg.closeCalls[f.kind])
       IN  mg' = IF f.client = 0
                 THEN [mg EXCEPT !.clients = Append(mg.clients, c),
                                 !.th[t].client = Len(mg.clients) + 1,
                                 !.th[t].built = Len(mg.clients) + 1,
                                 !.th[t].created = TRUE,
                                 !.th[t].pc = "start"]
                 ELSE [mg EXCEPT !.th[t].pc = "start"]
    /\ MgFrame /\ UNCHANGED nfault

\* session = client.start_session(), before the try: when it raises, the
\* exception leaves the helper.
MSessStart(t) ==
    /\ mg.th[t].op = "session" /\ mg.th[t].pc = "start"
    /\ \E f \in Faulty :
          /\ nfault' = nfault + (IF f THEN 1 ELSE 0)
          /\ mg' = IF f
                   THEN [mg EXCEPT !.th[t].exc = "start_session", !.th[t].pc = "done"]
                   ELSE [mg EXCEPT !.th[t].sess = "open", !.th[t].pc = "body"]
    /\ MgFrame

\* yield session: the body of the with statement runs, and ends normally
\* or with an exception, which is thrown into the generator at the yield.
MSessBody(t) ==
    /\ mg.th[t].op = "session" /\ mg.th[t].pc = "body"
    /\ \E raises \in BOOLEAN :
          mg' = [mg EXCEPT !.th[t].exc = IF raises THEN "body" ELSE "", !.th[t].pc = "end"]
    /\ MgFrame /\ UNCHANGED nfault

\* finally: session.end_session(); when it raises, the rest of the finally
\* clause is skipped.
MSessEnd(t) ==
    /\ mg.th[t].op = "session" /\ mg.th[t].pc = "end"
    /\ \E f \in Faulty :
          /\ nfault' = nfault + (IF f THEN 1 ELSE 0)
          /\ mg' = IF f
                   THEN [mg EXCEPT !.th[t].exc = "end_session", !.th[t].pc = "done"]
                   ELSE [mg EXCEPT !.th[t].sess = "ended", !.th[t].pc = "cclose"]
    /\ MgFrame

\* if created_client: client.close(); the helper is left.
MSessClose(t) ==
    /\ mg.th[t].op = "session" /\ mg.th[t].pc = "cclose"
    /\ LET c == mg.th[t].client
       IN  mg' = IF SessionCloses(mg.th[t].created)
                 THEN [mg EXCEPT !.clients[c] = Closed(mg.clients[c]), !.th[t].pc = "done"]
                 ELSE [mg EXCEPT !.th[t].pc = "done"]
    /\ MgFrame /\ UNCHANGED nfault

(***************************************************************************)
(* The specifications.                                                     *)
(***************************************************************************)
InitFs ==
    /\ dirs = {"D1"}
    /\ names = [n \in AllNames |-> IF n = PA THEN 1 ELSE 0]
    /\ data = [i \in Inos |-> IF i = 1 THEN Document(OldValue, <<2>>, FALSE) ELSE <<>>]
    /\ disk = [i \in Inos |-> IF i = 1 THEN {Document(OldValue, <<2>>, FALSE)} ELSE {<<>>}]
    /\ wr = [w \in Writers |-> IdleW]
    /\ rd = IdleR
    /\ committed = [p \in Targets |-> IF p = PA THEN {Document(OldValue, <<2>>, FALSE)} ELSE {}]
    /\ lastRen = [p \in Targets |-> ""]
    /\ fb = IdleFb
    /\ mg = IdleMg

\* Two concurrent writers in both modes, with faults, kills and power loss.
Init ==
    /\ InitFs
    /\ scn = "conc"
    /\ ncalls = 0
    /\ nfault = 0

WriterStep(w) ==
    \/ WCall(w)
    \/ WMkdir(w)
    \/ WOpenDirect(w)
    \/ WMkTemp(w)
    \/ WDump(w)
    \/ WNewline(w)
    \/ WFlush(w)
    \/ WFsync(w)
    \/ WClose(w)
    \/ WHClose(w)
    \/ WHUnlink(w)
    \/ WReplace(w)

Next ==
    \/ \E w \in Writers : WriterStep(w)
    \/ \E w \in Writers : Kill(w)
    \/ PowerLoss

Spec == Init /\ [][Next]_vars

\* Atomic writers and a concurrent reader, with faults, kills, power loss
\* and removal of a target by another process.
InitRd ==
    /\ InitFs
    /\ scn = "rd"
    /\ ncalls = 0
    /\ nfault = 0

AtomicStep(w) ==
    \/ WCall(w)
    \/ WMkdir(w)
    \/ WMkTemp(w)
    \/ WDump(w)
    \/ WNewline(w)
    \/ WFlush(w)
    \/ WFsync(w)
    \/ WClose(w)
    \/ WHClose(w)
    \/ WHUnlink(w)
    \/ WReplace(w)

ReaderStep ==
    \/ \E p \in PathMenu : RCall(p)
    \/ RExists
    \/ ROpen
    \/ RLoad

NextRd ==
    \/ \E w \in Writers : AtomicStep(w)
    \/ ReaderStep
    \/ \E w \in Writers : Kill(w)
    \/ PowerLoss
    \/ \E p \in PathMenu : EnvRemove(p)

SpecRd == InitRd /\ [][NextRd]_vars

\* One write_json call without faults, then reads: the round trip.
InitRT ==
    /\ InitFs
    /\ scn = "rt"
    /\ ncalls = MaxCalls - 1
    /\ nfault = MaxFaults

NextRT ==
    \/ WCall("w1")
    \/ WMkdir("w1")
    \/ WOpenDirect("w1")
    \/ WMkTemp("w1")
    \/ WDump("w1")
    \/ WNewline("w1")
    \/ WFlush("w1")
    \/ WFsync("w1")
    \/ WClose("w1")
    \/ WReplace("w1")
    \/ ReaderStep

SpecRT == InitRT /\ [][NextRT]_vars

\* json.dump calls that meet a value without a native representation.
InitFb ==
    /\ InitFs
    /\ scn = "fb"
    /\ ncalls = 0
    /\ nfault = 0

NextFb ==
    \/ FbCall
    \/ FbEncode

SpecFb == InitFb /\ [][NextFb]_vars

\* Two threads calling mongo.py's functions, with failing start_session
\* and end_session.
InitMg ==
    /\ InitFs
    /\ scn = "mongo"
    /\ ncalls = 0
    /\ nfault = 0

ThreadStep(t) ==
    \/ MGetCall(t)
    \/ MGetCheck(t)
    \/ MGetNew(t)
    \/ MGetStore(t)
    \/ MGetRet(t)
    \/ MCloseCall(t)
    \/ MCloseCheck(t)
    \/ MCloseClose(t)
    \/ MCloseClear(t)
    \/ MSessCall(t)
    \/ MSessBegin(t)
    \/ MSessStart(t)
    \/ MSessBody(t)
    \/ MSessEnd(t)
    \/ MSessClose(t)

NextMg == \E t \in Threads : ThreadStep(t)

SpecMg == InitMg /\ [][NextMg]_vars

(***************************************************************************)
(* The properties.                                                         *)
(***************************************************************************)
\* The document a call was asked to write.
OwnDocument(w) == Document(wr[w].data, wr[w].indent, wr[w].ea)

\* The value of the call serializes.
GoodValue(w) == ~DumpRaises(wr[w].data, wr[w].indent, wr[w].ea)

\* The call has ended in atomic mode and its first failure was inside the
\* try block: json.dump, the newline, the flush or the fsync.
FailedBeforeRename(w) ==
    /\ wr[w].pc = "done"
    /\ wr[w].atomic
    /\ wr[w].orig.at \in {"dump", "newline", "flush", "fsync"}

IsNotMkdir(s) == s # "mkdir"

\* C1: under atomic writers, a concurrent reader, failures, kills and a
\* power loss, a target path is absent or holds a complete document that an
\* earlier call committed (or the one it held from the start), and what a
\* reader reads from a target is such a document: never empty, truncated
\* or mixed, and never a parse error.
C1_TargetAbsentOrCommitted ==
    /\ \A p \in {PA, PB} : names[p] = 0 \/ data[names[p]] \in committed[p]
    /\ \A p \in {PA, PB} : \A d \in committed[p] : Load(d).ok
    /\ rd.pc = "load" => data[rd.fd] \in committed[rd.path]
    /\ rd.pc = "done" =>
          /\ rd.kind \in {"value", "FileNotFoundError"}
          /\ rd.kind = "value" => rd.seen \in committed[rd.path]

\* A reader read the new document of PA while the other writer held a
\* flushed, not yet renamed temporary file for the same path.
C1_Witness ==
    /\ rd.pc = "done"
    /\ rd.path = PA
    /\ rd.kind = "value"
    /\ rd.v = JList(<<JInt(1)>>)
    /\ wr["w2"].pc = "fsync"
    /\ wr["w2"].path = PA

\* C2: an atomic call whose first failure was in json.dump, the newline
\* write, the flush or the fsync returns without having changed what its
\* target path holds: the call made no rename and none of its steps
\* changed the target's presence or content.
C2_FailureLeavesTarget ==
    \A w \in Writers : FailedBeforeRename(w) => ~wr[w].modif /\ wr[w].renames = 0

\* A call failed in the fsync, with its target present.
C2_Witness ==
    \E w \in Writers :
        /\ FailedBeforeRename(w)
        /\ wr[w].orig.at = "fsync"
        /\ names[wr[w].path] # 0

\* C3: when an atomic call that created its temporary file ends, the
\* handle is closed and the temporary file is gone from the directory,
\* unless its deletion failed.
C3_TmpNeverLeftBehind ==
    \A w \in Writers :
        wr[w].pc = "done" /\ wr[w].atomic /\ wr[w].tmp # NoName
            => wr[w].fd = 0 /\ (~wr[w].stray \/ wr[w].unlinkFailed)

\* C4: the exception that leaves an atomic call which failed in json.dump,
\* the newline write, the flush or the fsync is that first failure.
C4_OriginalErrorSurfaces ==
    \A w \in Writers : FailedBeforeRename(w) => wr[w].exc = wr[w].orig

\* C5: an atomic call renames at most once; it reaches os.replace only
\* after mktemp, dump, newline, flush, fsync and close succeeded in this
\* order, with the whole document in the temporary file and on disk; a
\* call that failed in one of those steps never renames.
C5_RenameOnceAfterDurable ==
    \A w \in Writers :
        wr[w].atomic =>
            /\ wr[w].renames <= 1
            /\ wr[w].pc = "replace" =>
                  /\ SelectSeq(wr[w].steps, IsNotMkdir)
                        = <<"mktemp", "dump", "newline", "flush", "fsync", "close">>
                  /\ wr[w].exc = NoExc
                  /\ names[wr[w].tmp] # 0
                  /\ data[names[wr[w].tmp]] = OwnDocument(w)
                  /\ disk[names[wr[w].tmp]] = {OwnDocument(w)}
            /\ wr[w].renames = 1 =>
                  SelectSeq(wr[w].steps, IsNotMkdir)
                     = <<"mktemp", "dump", "newline", "flush", "fsync", "close", "replace">>
            /\ wr[w].orig.at \in {"dump", "newline", "flush", "fsync", "close"}
                  => wr[w].renames = 0

\* A call has renamed and returned.
C5_Witness == \E w \in Writers : wr[w].pc = "done" /\ wr[w].atomic /\ wr[w].renames = 1

\* The writer holds a temporary file it created and has not yet renamed
\* or unlinked.
Holding(w) ==
    /\ wr[w].atomic
    /\ wr[w].pc \in {"dump", "newline", "flush", "fsync", "close", "hclose", "hunlink", "replace"}

\* C6: two atomic calls on one path never wait for each other, hold
\* distinct temporary files, and, when both wrote a serializable value
\* into an existing directory and nothing failed, both return without an
\* exception and the target holds exactly the document of the call whose
\* os.replace came last.
C6_LastRenameWins ==
    /\ \A w, o \in Writers :
          w # o /\ Holding(w) /\ Holding(o)
              => wr[w].tmp # wr[o].tmp /\ names[wr[w].tmp] # names[wr[o].tmp]
    /\ \A p \in Targets :
          (/\ nfault = 0
           /\ \A w \in Writers :
                 /\ wr[w].pc = "done" /\ wr[w].atomic /\ wr[w].path = p
                 /\ GoodValue(w) /\ ~wr[w].noParent)
              => /\ \A w \in Writers : wr[w].exc = NoExc
                 /\ lastRen[p] \in Writers
                 /\ names[p] # 0
                 /\ data[names[p]] = OwnDocument(lastRen[p])

\* Two overlapping atomic calls on PA have returned; w1 renamed last.
C6_Witness ==
    /\ \A w \in Writers :
          wr[w].pc = "done" /\ wr[w].atomic /\ wr[w].path = PA /\ wr[w].shared
          /\ wr[w].exc = NoExc
    /\ lastRen[PA] = "w1"

\* C7: a write_json call that returned without an exception, followed by
\* read_json of the same path, returns a value equal to the one written,
\* in atomic and non-atomic mode, for indent None, 0 and 2, with
\* ensure_ascii on and off.
C7_RoundTrip ==
    (/\ rd.pc = "done"
     /\ rd.epoch = ncalls
     /\ wr["w1"].pc = "done"
     /\ wr["w1"].exc = NoExc
     /\ rd.path = wr["w1"].path)
        => rd.kind = "value" /\ rd.v = wr["w1"].data

\* A dict with a non-ASCII key, written compact and unescaped in non-atomic
\* mode, was read back.
C7_Witness ==
    /\ rd.pc = "done"
    /\ rd.epoch = ncalls
    /\ wr["w1"].pc = "done"
    /\ rd.path = wr["w1"].path
    /\ ~wr["w1"].atomic
    /\ ~wr["w1"].ea
    /\ wr["w1"].indent = <<>>
    /\ wr["w1"].data = JDict(<<<<233, 92>>, <<97>>>>, <<JStr(<<128512>>), JNull>>)
    /\ rd.v = wr["w1"].data

\* C8: a call whose path no other call used during it or since ends as
\* it would alone, whatever the other writer did to other files: its temporary
\* file is named after its own target; with a serializable value it
\* returns without an exception and its target holds its own document
\* (or, without create_parents, it failed on the missing directory); with
\* a value that does not serialize it raises the encoder's error.
C8_Independent ==
    \A w \in Writers :
        (wr[w].pc = "done" /\ nfault = 0 /\ ~wr[w].shared) =>
            /\ wr[w].tmp # NoName =>
                  wr[w].tmp.dir = wr[w].path.dir /\ wr[w].tmp.base = wr[w].path.base
            /\ GoodValue(w) /\ (wr[w].cp \/ ~wr[w].noParent) =>
                  /\ wr[w].exc = NoExc
                  /\ names[wr[w].path] # 0
                  /\ data[names[wr[w].path]] = OwnDocument(w)
            /\ ~GoodValue(w) /\ ~wr[w].noParent =>
                  /\ wr[w].exc = Exc("TypeError", "dump")
                  /\ wr[w].atomic => ~wr[w].modif

\* Two calls on two files of one directory have both returned.
C8_Witness ==
    /\ wr["w1"].pc = "done" /\ wr["w1"].path = PA /\ wr["w1"].atomic
    /\ wr["w2"].pc = "done" /\ wr["w2"].path = PB /\ wr["w2"].atomic
    /\ wr["w1"].exc = NoExc /\ wr["w2"].exc = NoExc
    /\ data[names[PA]] = OwnDocument("w1")
    /\ data[names[PB]] = OwnDocument("w2")

\* C9: with create_parents a call with a serializable value and no fault
\* returns without an exception, whether the directories were missing or
\* there, and the ancestors of its target exist; without create_parents
\* a call on a path whose parent is missing ends in FileNotFoundError (an
\* OSError) having created nothing, in both modes; no file ever exists in
\* a missing directory.
C9_Parents ==
    /\ \A w \in Writers :
          (wr[w].pc = "done" /\ wr[w].cp /\ nfault = 0 /\ GoodValue(w)) =>
              /\ wr[w].exc = NoExc
              /\ names[wr[w].path] # 0
              /\ wr[w].path = PC => {"D2", "D3"} \subseteq dirs
    /\ \A w \in Writers :
          (wr[w].pc = "done" /\ ~wr[w].cp /\ wr[w].path.dir \notin dirs) =>
              /\ wr[w].exc.kind = "FileNotFoundError"
              /\ wr[w].made = {}
              /\ wr[w].tmp = NoName
              /\ wr[w].fd = 0
    /\ \A n \in AllNames : n.dir \notin dirs => names[n] = 0

\* A call with create_parents made D2 and D3 and wrote its document.
C9_Witness ==
    \E w \in Writers :
        /\ wr[w].pc = "done" /\ wr[w].cp /\ wr[w].path = PC /\ wr[w].exc = NoExc
        /\ {"D2", "D3"} \subseteq dirs
        /\ names[PC] # 0

\* C10: a read_json step that finds its path absent, in the existence
\* check or in the open (the path having been removed in between), ends
\* the call with FileNotFoundError; no value is returned.
C10_AbsentIsNotFound ==
    [][(/\ rd.pc \in {"exists", "open"}
        /\ names[rd.path] = 0
        /\ rd'.pc \notin {rd.pc, "idle"})
           => (rd'.pc = "done" /\ rd'.kind = "FileNotFoundError")]_vars

\* The path passed the existence check and was gone at the open.
C10_Witness == rd.pc = "done" /\ rd.at = "open" /\ rd.kind = "FileNotFoundError"

\* The rules of the fallback encoder in their order.
RuleOrder == <<"Path", "set", "to_string", "to_wkt", "to_epsg", "item", "str">>

\* The rule applies to the value and succeeds.
Succeeds(v, rule) ==
    CASE rule = "Path" -> v.cls = "path"
      [] rule = "set" -> v.cls = "set"
      [] rule = "to_string" -> v.to_string = "returns"
      [] rule = "to_wkt" -> v.to_wkt = "returns"
      [] rule = "to_epsg" -> v.to_epsg = "returns"
      [] rule = "item" -> v.item = "returns"
      [] OTHER -> TRUE

\* C11: what the default fallback encoder returns for a value is the
\* result of the first rule, in the order Path, set, to_string, to_wkt,
\* to_epsg, item, str, that applies and succeeds; absent and non-callable
\* attributes, raising methods and a to_epsg() of None are passed over.
C11_FirstRuleWins ==
    (fb.pc = "done" /\ fb.default = "none") =>
        \E i \in 1..Len(RuleOrder) :
            /\ fb.out.rule = RuleOrder[i]
            /\ Succeeds(fb.v, RuleOrder[i])
            /\ \A j \in 1..(i - 1) : ~Succeeds(fb.v, RuleOrder[j])
            /\ RuleOrder[i] = "set" =>
                  fb.out.val = (IF fb.v.sortable THEN "sorted(value)" ELSE "list(value)")

\* An object whose to_string raises and whose to_wkt works was encoded by
\* to_wkt, although to_epsg and item work too.
C11_Witness ==
    /\ fb.pc = "done"
    /\ fb.default = "none"
    /\ fb.v.cls = "other"
    /\ fb.v.to_string = "raises"
    /\ fb.v.to_wkt = "returns"
    /\ fb.v.to_epsg = "returns"
    /\ fb.v.item = "returns"
    /\ fb.out = FbResult("to_wkt", "to_wkt()")

\* C12: with a caller-supplied default= the value is encoded by the
\* caller's encoder and _json_default is not invoked, in both modes;
\* without one, _json_default encodes it.
C12_CallerEncoderUsed ==
    fb.pc = "done" =>
        /\ fb.default # "none" =>
              fb.viaCaller = 1 /\ fb.viaDefault = 0 /\ fb.out.rule = "caller"
        /\ fb.default = "none" =>
              fb.viaCaller = 0 /\ fb.viaDefault = 1 /\ fb.out.rule # "caller"

\* The thread has left a function of mongo.py.
Left(t, op) == mg.th[t].op = op /\ mg.th[t].pc = "done"

\* C13: when a session helper is left, the session it started has been
\* ended and the client it created itself has been closed.
C13_TeardownOnExit ==
    \A t \in Threads :
        Left(t, "session") =>
            /\ mg.th[t].sess # "open"
            /\ mg.th[t].created => ~mg.clients[mg.th[t].client].open

\* C14: the get_*_client calls of one family build at most one client
\* between two close_*_client calls, and, while no close was called, all
\* of them return that one client.
C14_OneClient ==
    /\ \A i, j \in 1..Len(mg.clients) :
          (/\ i # j
           /\ ~mg.clients[i].helper /\ ~mg.clients[j].helper
           /\ mg.clients[i].kind = mg.clients[j].kind)
              => mg.clients[i].epoch # mg.clients[j].epoch
    /\ \A t, u \in Threads :
          (/\ Left(t, "get") /\ Left(u, "get")
           /\ mg.th[t].kind = mg.th[u].kind
           /\ mg.closeCalls[mg.th[t].kind] = 0)
              => mg.th[t].ret = mg.th[u].ret /\ mg.th[t].ret > 0

\* C16: a step of a session helper leaves both cache slots as they are and
\* changes no client other than the one the helper built itself: a
\* caller-supplied client and the cached clients are neither closed nor
\* replaced.
C16_SessionsLeaveCache ==
    [][\A t \in Threads :
          (/\ mg.th[t].op = "session"
           /\ mg.th[t].pc \notin {"idle", "done"}
           /\ mg'.th[t] # mg.th[t])
             => /\ mg'.slot = mg.slot
                /\ \A i \in 1..Len(mg.clients) :
                      i # mg.th[t].built => mg'.clients[i] = mg.clients[i]]_vars

\* A session helper was entered with the cached client and left normally;
\* the cache still holds that client, open.
C16_Witness ==
    \E t \in Threads :
        /\ Left(t, "session")
        /\ ~mg.th[t].created
        /\ mg.th[t].sess = "ended"
        /\ mg.th[t].client # 0
        /\ mg.slot[mg.th[t].kind] = mg.th[t].client
        /\ mg.clients[mg.th[t].client].open
        /\ mg.clients[mg.th[t].client].closes = 0

\* C17: a get_*_client call returns a client, and one that is not closed;
\* close_*_client ends without an exception, on an empty cache too; no
\* client is closed more than once; a client in the cache is open unless a
\* close_*_client call is under way.
C17_NeverClosedClient ==
    /\ \A t \in Threads :
          Left(t, "get") => mg.th[t].ret > 0 /\ ~mg.th[t].retClosed
    /\ \A t \in Threads : Left(t, "close") => mg.th[t].exc = ""
    /\ \A i \in 1..Len(mg.clients) : mg.clients[i].closes <= 1
    /\ \A k \in Kinds :
          (/\ mg.slot[k] # 0
           /\ \A t \in Threads : ~(mg.th[t].op = "close" /\ mg.th[t].pc \in {"close", "clear"}))
              => mg.clients[mg.slot[k]].open

\* a is a prefix of b.
IsPrefix(a, b) == Len(a) <= Len(b) /\ a = SubSeq(b, 1, Len(a))

\* The bytes of the chunks json.dump writes before the encoder raises.
OwnPartial(w) == Utf8Encode(Flat(GoodPrefix(Chunks(wr[w].data, wr[w].indent, wr[w].ea, 0))))

\* C15: a non-atomic call never has a temporary file and never renames;
\* once it has opened its target, the target exists and is empty before
\* anything is serialized; when json.dump fails, the call ends with an
\* exception and the target, its prior content gone (the call changed
\* the target unless it was empty before and is empty after), is empty or
\* holds the beginning of the serialization, never the complete document.
C15_DirectModeTruncates ==
    \A w \in Writers :
        ~wr[w].atomic =>
            /\ wr[w].tmp = NoName
            /\ wr[w].renames = 0
            /\ \A j \in 1..Len(wr[w].steps) : wr[w].steps[j] \notin {"mktemp", "replace"}
            /\ (wr[w].pc = "dump" /\ ~wr[w].shared) =>
                  names[wr[w].path] # 0 /\ data[names[wr[w].path]] = <<>>
            /\ (wr[w].pc = "done" /\ wr[w].orig.at = "dump" /\ ~wr[w].shared) =>
                  /\ wr[w].exc # NoExc
                  /\ wr[w].modif \/ data[names[wr[w].path]] = <<>>
                  /\ names[wr[w].path] # 0
                  /\ IsPrefix(data[names[wr[w].path]], OwnPartial(w))
                  /\ data[names[wr[w].path]] # OwnDocument(w)

\* A non-atomic call on PA failed in json.dump and left PA with the
\* beginning of its document in place of the old one.
C15_Witness ==
    \E w \in Writers :
        /\ ~wr[w].atomic
        /\ wr[w].pc = "done"
        /\ wr[w].orig.at = "dump"
        /\ ~wr[w].shared
        /\ wr[w].path = PA
        /\ data[names[PA]] # <<>>
        /\ data[names[PA]] = OwnPartial(w)

====
